---- MODULE Spec2Model ----
(***************************************************************************)
(* The 2FA service of src/main.py: the handlers setup_2fa, verify_2fa,     *)
(* status_2fa and disable_2fa over the "twofasecret" collection, and the   *)
(* TOTP check (pyotp.TOTP(secret).verify(code, valid_window=1)) they call. *)
(*                                                                         *)
(* Strings the program takes apart (secrets, codes) are sequences of       *)
(* one-character strings; bytes are 0..255; a 32-bit word is a pair        *)
(* <<hi, lo>> of 16-bit halves.                                            *)
(***************************************************************************)
EXTENDS Integers, Sequences, FiniteSets, TLC

(***************************************************************************)
(* SHA-1, HMAC-SHA1 (RFC 3174, RFC 2104), as hmac.new(key, msg, sha1)      *)
(* computes them.  They are functions, which take their arguments as       *)
(* values.                                                                 *)
(***************************************************************************)
Half == 0..65535

Word == Half \X Half

Bytes == Seq(0..255)

And16[a \in Half, b \in Half] ==
    IF a = 0 \/ b = 0 THEN 0
    ELSE 2 * And16[a \div 2, b \div 2] + (a % 2) * (b % 2)

Xor16[a \in Half, b \in Half] == a + b - 2 * And16[a, b]

Or16[a \in Half, b \in Half] == a + b - And16[a, b]

WAnd[x \in Word, y \in Word] == <<And16[x[1], y[1]], And16[x[2], y[2]]>>

WXor[x \in Word, y \in Word] == <<Xor16[x[1], y[1]], Xor16[x[2], y[2]]>>

WOr[x \in Word, y \in Word] == <<Or16[x[1], y[1]], Or16[x[2], y[2]]>>

WNot[x \in Word] == <<65535 - x[1], 65535 - x[2]>>

\* addition modulo 2^32
WAdd[x \in Word, y \in Word] ==
    <<(x[1] + y[1] + ((x[2] + y[2]) \div 65536)) % 65536, (x[2] + y[2]) % 65536>>

\* rotation to the left by n bits
Rotl[x \in Word, n \in 1..31] ==
    IF n = 16 THEN <<x[2], x[1]>>
    ELSE IF n > 16 THEN Rotl[<<x[2], x[1]>>, n - 16]
    ELSE <<((x[1] * (2 ^ n)) % 65536) + (x[2] \div (2 ^ (16 - n))),
           ((x[2] * (2 ^ n)) % 65536) + (x[1] \div (2 ^ (16 - n)))>>

Sha1Init == << <<26437, 8961>>, <<61389, 43913>>, <<39098, 56574>>,
               <<4146, 21622>>, <<50130, 57840>> >>

Sha1K[t \in 0..79] ==
    IF t < 20 THEN <<23170, 31129>>
    ELSE IF t < 40 THEN <<28377, 60321>>
    ELSE IF t < 60 THEN <<36635, 48348>>
    ELSE <<51810, 49622>>

Sha1F[t \in 0..79, b \in Word, c \in Word, d \in Word] ==
    IF t < 20 THEN WOr[WAnd[b, c], WAnd[WNot[b], d]]
    ELSE IF t < 40 THEN WXor[WXor[b, c], d]
    ELSE IF t < 60 THEN WOr[WOr[WAnd[b, c], WAnd[b, d]], WAnd[c, d]]
    ELSE WXor[WXor[b, c], d]

\* the message schedule: the 16 words of a block extended to 80
Sha1Schedule[w \in Seq(Word)] ==
    IF Len(w) >= 80 THEN w
    ELSE Sha1Schedule[Append(w, Rotl[WXor[WXor[w[Len(w) - 2], w[Len(w) - 7]],
                                         WXor[w[Len(w) - 13], w[Len(w) - 15]]], 1])]

\* rounds t .. 79 on the working variables s = <<a, b, c, d, e>>
Sha1Rounds[t \in 0..80, s \in Seq(Word), w \in Seq(Word)] ==
    IF t = 80 THEN s
    ELSE Sha1Rounds[t + 1,
                    <<WAdd[WAdd[WAdd[Rotl[s[1], 5], Sha1F[t, s[2], s[3], s[4]]],
                                WAdd[s[5], w[t + 1]]], Sha1K[t]],
                      s[1], Rotl[s[2], 30], s[3], s[4]>>,
                    w]

\* the words a .. e after the 80 rounds are added to the chaining value h
Sha1Add[h \in Seq(Word), s \in Seq(Word)] == [i \in 1..5 |-> WAdd[h[i], s[i]]]

\* one 64-byte block into the chaining value h
Sha1Block[h \in Seq(Word), block \in Bytes] ==
    Sha1Add[h, Sha1Rounds[0, h, Sha1Schedule[
        [i \in 1..16 |-> <<block[4 * i - 3] * 256 + block[4 * i - 2],
                           block[4 * i - 1] * 256 + block[4 * i]>>]]]]

\* the message padded to a multiple of 64 bytes (messages shorter than 8 KiB)
Sha1Pad[msg \in Bytes] ==
    msg \o <<128>> \o [i \in 1..((119 - (Len(msg) % 64)) % 64) |-> 0]
        \o <<0, 0, 0, 0, 0, 0, (8 * Len(msg)) \div 256, (8 * Len(msg)) % 256>>

Sha1Blocks[h \in Seq(Word), m \in Bytes] ==
    IF Len(m) = 0 THEN h
    ELSE Sha1Blocks[Sha1Block[h, SubSeq(m, 1, 64)], SubSeq(m, 65, Len(m))]

\* the 20 bytes of the five words of h
Sha1Digest[h \in Seq(Word)] ==
    [i \in 1..20 |->
        IF i % 4 = 1 THEN h[(i + 3) \div 4][1] \div 256
        ELSE IF i % 4 = 2 THEN h[(i + 3) \div 4][1] % 256
        ELSE IF i % 4 = 3 THEN h[(i + 3) \div 4][2] \div 256
        ELSE h[(i + 3) \div 4][2] % 256]

Sha1[msg \in Bytes] == Sha1Digest[Sha1Blocks[Sha1Init, Sha1Pad[msg]]]

\* the key of HMAC as a block: hashed when longer than a block, padded with zeros
HmacKey[key \in Bytes] ==
    IF Len(key) > 64 THEN Sha1[key] \o [i \in 1..44 |-> 0]
    ELSE key \o [i \in 1..(64 - Len(key)) |-> 0]

HmacPadded[k \in Bytes, msg \in Bytes] ==
    Sha1[[i \in 1..64 |-> Xor16[k[i], 92]] \o Sha1[[i \in 1..64 |-> Xor16[k[i], 54]] \o msg]]

HmacSha1[key \in Bytes, msg \in Bytes] == HmacPadded[HmacKey[key], msg]

(***************************************************************************)
(* pyotp: secrets, codes and the windowed check.                           *)
(***************************************************************************)
B32Alphabet == <<"A", "B", "C", "D", "E", "F", "G", "H", "I", "J", "K", "L", "M",
                 "N", "O", "P", "Q", "R", "S", "T", "U", "V", "W", "X", "Y", "Z",
                 "2", "3", "4", "5", "6", "7">>

B32Value(ch) == (CHOOSE i \in 1..32 : B32Alphabet[i] = ch) - 1

\* base64.b32decode of a secret whose length is a multiple of 8
B32DecodeValues[v \in Seq(0..31)] ==
    IF Len(v) = 0 THEN <<>>
    ELSE << v[1] * 8 + (v[2] \div 4),
            (v[2] % 4) * 64 + v[3] * 2 + (v[4] \div 16),
            (v[4] % 16) * 16 + (v[5] \div 2),
            (v[5] % 2) * 128 + v[6] * 4 + (v[7] \div 8),
            (v[7] % 8) * 32 + v[8] >>
         \o B32DecodeValues[SubSeq(v, 9, Len(v))]

B32Decode(chars) == B32DecodeValues[[i \in 1..Len(chars) |-> B32Value(chars[i])]]

\* pyotp.TOTP(secret): digits=6, interval=30, digest=sha1
Digits == 6

Interval == 30

\* the window verify_2fa asks for
ValidWindow == 1

DigitChars == <<"0", "1", "2", "3", "4", "5", "6", "7", "8", "9">>

\* str(10_000_000_000 + n)[-digits:]: the last `digits` decimal digits of n
LastDigits[n \in Nat, digits \in Nat] ==
    IF digits = 0 THEN <<>>
    ELSE Append(LastDigits[n \div 10, digits - 1], DigitChars[(n % 10) + 1])

\* utils.int_to_bytestring: the counter as 8 big-endian bytes
IntToBytestring(i) ==
    <<0, 0, 0, 0, (i \div 16777216) % 256, (i \div 65536) % 256, (i \div 256) % 256, i % 256>>

\* the dynamic truncation of OTP.generate_otp: four bytes at the offset the
\* last byte gives, without the sign bit
Truncate[hmac_hash \in Bytes] ==
    (hmac_hash[(hmac_hash[20] % 16) + 1] % 128) * 16777216
        + hmac_hash[(hmac_hash[20] % 16) + 2] * 65536
        + hmac_hash[(hmac_hash[20] % 16) + 3] * 256
        + hmac_hash[(hmac_hash[20] % 16) + 4]

\* OTP.generate_otp
GenerateOtpOf(secret, input) ==
    LastDigits[Truncate[HmacSha1[B32Decode(secret), IntToBytestring(input)]] % (10 ^ Digits),
               Digits]

\* TOTP.timecode: the counter of a time in unix seconds
Timecode(for_time) == for_time \div Interval

(***************************************************************************)
(* The inputs of the model.                                                *)
(***************************************************************************)
\* Python's None (no str of the model equals it)
None == "<None>"

Users == {"alice", "bob"}

\* the default of SetupRequest.issuer
DefaultIssuer == "Flames 2FA"

\* two results of pyotp.random_base32()
SecretA == <<"G", "2", "K", "K", "4", "F", "C", "L", "I", "G", "6", "3", "K", "G", "2", "N",
             "Z", "N", "L", "B", "O", "G", "W", "V", "L", "7", "I", "Z", "K", "H", "V", "N">>

SecretB == <<"J", "B", "S", "W", "Y", "3", "D", "P", "E", "H", "P", "K", "3", "P", "X", "P",
             "J", "B", "S", "W", "Y", "3", "D", "P", "E", "H", "P", "K", "3", "P", "X", "P">>

RandomBase32 == {SecretA, SecretB}

\* the clock: it starts in the middle of time step 60013143 (2027-01-19
\* 21:31:45 UTC), and the model lets it advance MaxTicks times by TickSeconds
StartTime == 60013143 * Interval + 15

TickSeconds == 20

MaxTicks == 1

\* the requests the model serves in one run
MaxRequests == 2

\* requests of setup_2fa or verify_2fa that may be between their read and
\* their write at the same time
MaxInFlight == 2

\* how far from the server's time step the step of a client's authenticator is
MaxSkew == 2

EndTime == StartTime + MaxTicks * TickSeconds

\* the counters the model computes codes for
Counters == (Timecode(StartTime) - MaxSkew - 1)..(Timecode(EndTime) + MaxSkew + 1)

\* the codes of every secret and counter of the model, computed once
OtpTable == [secret \in RandomBase32 |-> [c \in Counters |-> GenerateOtpOf(secret, c)]]

GenerateOtp(secret, input) == OtpTable[secret][input]

\* TOTP.verify(otp, valid_window): the candidate is compared, as a string,
\* with the code of each counter timecode(now) - valid_window ..
\* timecode(now) + valid_window
TotpVerify(secret, otp, for_time, valid_window) ==
    \E i \in (0 - valid_window)..valid_window :
        otp = GenerateOtp(secret, Timecode(for_time) + i)

\* what an authenticator holding `secret` shows when its time step is `skew`
\* steps away from the server's
AuthenticatorCode(secret, for_time, skew) == GenerateOtp(secret, Timecode(for_time) + skew)

\* candidates that are no 6-digit code: too short, and not digits
MalformedCodes == { <<"1", "2", "3">>, <<"a", "b", "c", "d", "e", "f">> }

\* candidates that are no 6-digit code at a time: the above, and the code an
\* authenticator shows followed by a space (seven characters)
MalformedCodesAt(for_time) ==
    MalformedCodes
        \cup { Append(AuthenticatorCode(secret, for_time, 0), " ") : secret \in RandomBase32 }

(***************************************************************************)
(* The state.  A request of setup_2fa or verify_2fa takes two steps, its   *)
(* read of the collection and its write, and other requests run between    *)
(* the two (the handlers are plain functions, which the server runs on a   *)
(* pool of threads).                                                       *)
(***************************************************************************)
VARIABLES
    db,                 \* the handle imported from database: None or "db"
    twofasecret,        \* the collection db["twofasecret"]: its documents, in insertion order
    twofasecret_audit,  \* the collection "twofasecret_audit": a bag of documents
    now,                \* the server's clock, unix seconds
    served,             \* the requests received so far
    setups,             \* setup_2fa requests between find_one and update_one: a bag of their
                        \* locals (existing: whether find_one gave a document with a secret)
    verifies,           \* verify_2fa requests between the check and update_one: a bag of their locals
    response            \* what the last step answered, NoResponse when it answered nothing

vars == <<db, twofasecret, twofasecret_audit, now, served, setups, verifies, response>>

NoResponse == [op |-> "none", user_id |-> None, status |-> 0, body |-> [detail |-> None]]

\* raise HTTPException(status_code, detail)
HTTPException(op, user_id, status_code, detail) ==
    [op |-> op, user_id |-> user_id, status |-> status_code, body |-> [detail |-> detail]]

\* a handler's return value, sent with status 200
Return(op, user_id, body) == [op |-> op, user_id |-> user_id, status |-> 200, body |-> body]

(***************************************************************************)
(* The collection operations the handlers call.                            *)
(***************************************************************************)
\* the place of the first document of user_id, 0 when there is none
FirstMatch(coll, user_id) ==
    IF \E i \in 1..Len(coll) : coll[i].user_id = user_id
    THEN CHOOSE i \in 1..Len(coll) :
            /\ coll[i].user_id = user_id
            /\ \A j \in 1..(i - 1) : coll[j].user_id # user_id
    ELSE 0

\* find_one({"user_id": user_id}) found a document
Found(coll, user_id) == FirstMatch(coll, user_id) # 0

FindOne(coll, user_id) == coll[FirstMatch(coll, user_id)]

\* a document with the fields of `set` assigned
SetFields(doc, set) ==
    [f \in (DOMAIN doc) \cup (DOMAIN set) |-> IF f \in DOMAIN set THEN set[f] ELSE doc[f]]

\* a faulty variant of UpdateOne: every update is an upsert
UpdateOneUpserting(coll, user_id, set, upsert) ==
    LET i == FirstMatch(coll, user_id)
    IN  IF i # 0 THEN [coll EXCEPT ![i] = SetFields(coll[i], set)]
        ELSE Append(coll, SetFields([user_id |-> user_id], set))

\* update_one({"user_id": user_id}, {"$set": set}, upsert): the first match is
\* updated; without a match the document is inserted under upsert, and
\* nothing happens otherwise
UpdateOne(coll, user_id, set, upsert) ==
    LET i == FirstMatch(coll, user_id)
    IN  IF i # 0 THEN [coll EXCEPT ![i] = SetFields(coll[i], set)]
        ELSE IF upsert THEN Append(coll, SetFields([user_id |-> user_id], set))
        ELSE coll

\* a faulty variant of ProjectOutSecret: the projection {"_id": 0}
ProjectOutId(doc) == [f \in (DOMAIN doc) \ {"_id"} |-> doc[f]]

\* find_one's projection {"_id": 0, "secret": 0}
ProjectOutSecret(doc) == [f \in (DOMAIN doc) \ {"_id", "secret"} |-> doc[f]]

\* a bag with one more, or one less, copy of e
BagAdd(bag, e) ==
    IF e \in DOMAIN bag THEN [bag EXCEPT ![e] = @ + 1]
    ELSE [x \in (DOMAIN bag) \cup {e} |-> IF x = e THEN 1 ELSE bag[x]]

BagRemove(bag, e) ==
    IF bag[e] > 1 THEN [bag EXCEPT ![e] = @ - 1]
    ELSE [x \in (DOMAIN bag) \ {e} |-> bag[x]]

BagSize(bag) ==
    LET RECURSIVE Sum(_)
        Sum(S) == IF S = {} THEN 0
                  ELSE LET x == CHOOSE y \in S : TRUE IN bag[x] + Sum(S \ {x})
    IN  Sum(DOMAIN bag)

EmptyBag == [x \in {} |-> 0]

InFlight == BagSize(setups) + BagSize(verifies)

(***************************************************************************)
(* provisioning_uri and the QR code of setup_2fa's answer.                 *)
(***************************************************************************)
\* urllib.parse.quote on the strings of the model
Quote(str) ==
    CASE str = "Flames 2FA" -> "Flames%202FA"
      [] OTHER -> str

\* pyotp.utils.build_uri: otpauth://totp/<issuer>:<name>?secret=<secret>&issuer=<issuer>
ProvisioningUri(secret, name, issuer_name) ==
    <<"otpauth://totp/", Quote(issuer_name), ":", Quote(name), "?secret=", secret,
      "&issuer=", Quote(issuer_name)>>

\* _generate_qr_data_url: the PNG of the QR code of text, as a data URL
GenerateQrDataUrl(text) == <<"data:image/png;base64,", text>>

(***************************************************************************)
(* setup_2fa                                                               *)
(***************************************************************************)
\* a faulty variant of DbAvailable: the handlers do not look at db
DbAssumedAvailable == TRUE

\* `if db is None: raise HTTPException(status_code=500, ...)`, the first
\* statement of each handler
DbAvailable == db # None

\* label = req.label or req.user_id
LabelOf(req) == IF req.label = None \/ req.label = "" THEN req.user_id ELSE req.label

\* the requests of the model: a client leaves issuer and label to their
\* defaults, or gives both
SetupRequests ==
    {[user_id |-> u, issuer |-> DefaultIssuer, label |-> None] : u \in Users}
        \cup {[user_id |-> u, issuer |-> "Acme", label |-> "work"] : u \in Users}

\* the audit document of a new secret
AuditDoc(req, label, secret) ==
    [user_id |-> req.user_id, action |-> "create_secret", issuer |-> req.issuer,
     label |-> label, secret_tail |-> SubSeq(secret, Len(secret) - 3, Len(secret))]

\* a faulty variant of HasSecret: the stored secret is never taken up again
HasSecretNever(coll, user_id) == FALSE

\* line 111: `if existing and existing.get("secret")`
HasSecret(coll, user_id) ==
    Found(coll, user_id) /\ FindOne(coll, user_id).secret # <<>>

\* a faulty variant of SetupAudit: the failure of create_document is not
\* caught, and the request ends with an error
SetupAuditRaising(req, label, secret, audit_ok) ==
    IF audit_ok
    THEN /\ setups' = BagAdd(setups, [req |-> req, label |-> label, existing |-> FALSE,
                                      secret |-> secret, enabled |-> FALSE])
         /\ twofasecret_audit' = BagAdd(twofasecret_audit, AuditDoc(req, label, secret))
         /\ response' = NoResponse
    ELSE /\ response' = HTTPException("setup", req.user_id, 500, "Internal Server Error")
         /\ UNCHANGED <<setups, twofasecret_audit>>

\* lines 114-129: a new secret with enabled = False, and its audit document;
\* create_document succeeds (audit_ok) or raises, and what it raises is
\* passed over
SetupAudit(req, label, secret, audit_ok) ==
    /\ setups' = BagAdd(setups, [req |-> req, label |-> label, existing |-> FALSE,
                                 secret |-> secret, enabled |-> FALSE])
    /\ twofasecret_audit' =
           IF audit_ok
           THEN BagAdd(twofasecret_audit, AuditDoc(req, label, secret))
           ELSE twofasecret_audit
    /\ response' = NoResponse

\* lines 100-133: the check of db, find_one, the choice of the secret, the
\* audit document (create_document may fail: the failure is passed over)
SetupRead(req) ==
    IF ~DbAvailable
    THEN /\ response' = HTTPException("setup", req.user_id, 500, "Database not available")
         /\ UNCHANGED <<db, twofasecret, twofasecret_audit, now, setups, verifies>>
    ELSE /\ InFlight < MaxInFlight
         /\ LET label == LabelOf(req)
                has == HasSecret(twofasecret, req.user_id)
            IN  IF has
                THEN LET existing == FindOne(twofasecret, req.user_id)
                     IN  /\ setups' = BagAdd(setups, [req |-> req, label |-> label,
                                                      existing |-> TRUE,
                                                      secret |-> existing.secret,
                                                      enabled |-> existing.enabled])
                         /\ response' = NoResponse
                         /\ UNCHANGED twofasecret_audit
                ELSE \E secret \in RandomBase32, audit_ok \in BOOLEAN :
                         SetupAudit(req, label, secret, audit_ok)
         /\ UNCHANGED <<db, twofasecret, now, verifies>>

\* lines 131-156: the upsert and the answer
SetupUpsert(s) ==
    /\ s \in DOMAIN setups
    /\ LET otpauth_url == ProvisioningUri(s.secret, s.label, s.req.issuer)
       IN  /\ twofasecret' = UpdateOne(twofasecret, s.req.user_id,
                                       [user_id |-> s.req.user_id, secret |-> s.secret,
                                        issuer |-> s.req.issuer, label |-> s.label,
                                        enabled |-> s.enabled], TRUE)
           /\ response' = Return("setup", s.req.user_id,
                                 [user_id |-> s.req.user_id, issuer |-> s.req.issuer,
                                  label |-> s.label, secret |-> s.secret,
                                  otpauth_url |-> otpauth_url,
                                  qr_data_url |-> GenerateQrDataUrl(otpauth_url),
                                  enabled |-> s.enabled])
    /\ setups' = BagRemove(setups, s)
    /\ UNCHANGED <<db, twofasecret_audit, now, verifies>>

(***************************************************************************)
(* verify_2fa                                                              *)
(***************************************************************************)
\* the codes a client may send at a time: what an authenticator holding any
\* secret shows within MaxSkew steps of the server's, and the malformed ones
CodesAt(for_time) ==
    { AuthenticatorCode(secret, for_time, skew) :
        secret \in RandomBase32, skew \in (0 - MaxSkew)..MaxSkew }
        \cup MalformedCodesAt(for_time)

\* a faulty variant of IsValid: the candidate is stripped of its spaces before
\* it is compared
IsValidStripped(secret, code, for_time) ==
    TotpVerify(secret, SelectSeq(code, LAMBDA ch : ch # " "), for_time, ValidWindow)

\* a faulty variant of IsValid: verify without valid_window, which takes the
\* code of the current time step only
IsValidNow(secret, code, for_time) == TotpVerify(secret, code, for_time, 0)

\* a faulty variant of VerifyFailed: the answer says enabled = false whatever
\* the document says
VerifyFailedDisabled(doc) == [success |-> FALSE, verified |-> FALSE, enabled |-> FALSE]

\* lines 176-177: the answer to a code that did not pass
VerifyFailed(doc) == [success |-> FALSE, verified |-> FALSE, enabled |-> doc.enabled]

\* lines 171-174: totp.verify(req.code, valid_window=1), False when it raises
IsValid(secret, code, for_time) == TotpVerify(secret, code, for_time, ValidWindow)

\* lines 161-177: the check of db, find_one, the check of the code, and the
\* answer of a request that stops here
VerifyCheck(req) ==
    IF ~DbAvailable
    THEN /\ response' = HTTPException("verify", req.user_id, 500, "Database not available")
         /\ UNCHANGED <<db, twofasecret, twofasecret_audit, now, setups, verifies>>
    ELSE IF ~Found(twofasecret, req.user_id)
    THEN /\ response' = HTTPException("verify", req.user_id, 404, "2FA not set up for this user")
         /\ UNCHANGED <<db, twofasecret, twofasecret_audit, now, setups, verifies>>
    ELSE LET doc == FindOne(twofasecret, req.user_id)
         IN  IF ~IsValid(doc.secret, req.code, now)
             THEN /\ response' = Return("verify", req.user_id, VerifyFailed(doc))
                  /\ UNCHANGED <<db, twofasecret, twofasecret_audit, now, setups, verifies>>
             ELSE /\ InFlight < MaxInFlight
                  /\ verifies' = BagAdd(verifies, [req |-> req])
                  /\ response' = NoResponse
                  /\ UNCHANGED <<db, twofasecret, twofasecret_audit, now, setups>>

\* a faulty variant of VerifyUpdate: the answer is given, the update is not made
VerifyWithoutUpdate(v) ==
    /\ v \in DOMAIN verifies
    /\ response' = Return("verify", v.req.user_id,
                          [success |-> TRUE, verified |-> TRUE, enabled |-> TRUE])
    /\ verifies' = BagRemove(verifies, v)
    /\ UNCHANGED <<db, twofasecret, twofasecret_audit, now, setups>>

\* lines 180-182: enabled is set, and the answer
VerifyUpdate(v) ==
    /\ v \in DOMAIN verifies
    /\ twofasecret' = UpdateOne(twofasecret, v.req.user_id, [enabled |-> TRUE], FALSE)
    /\ response' = Return("verify", v.req.user_id,
                          [success |-> TRUE, verified |-> TRUE, enabled |-> TRUE])
    /\ verifies' = BagRemove(verifies, v)
    /\ UNCHANGED <<db, twofasecret_audit, now, setups>>

(***************************************************************************)
(* status_2fa and disable_2fa                                              *)
(***************************************************************************)
\* a faulty variant of NotConfigured: the answer of the other branch's shape
NotConfiguredAsConfigured(user_id) ==
    [user_id |-> user_id, enabled |-> FALSE, configured |-> TRUE]

\* line 191: the answer of status_2fa when there is no document
NotConfigured(user_id) == [user_id |-> user_id, enabled |-> FALSE, configured |-> FALSE]

\* a faulty variant of DisableSet: disabling also clears the secret
DisableSetClearingSecret == [enabled |-> FALSE, secret |-> <<>>]

\* line 202: {"$set": {"enabled": False}}
DisableSet == [enabled |-> FALSE]

\* a faulty variant of StatusSet: the flag is set the wrong way
StatusSetNotConfigured == [configured |-> FALSE]

\* line 193: doc["configured"] = True
StatusSet == [configured |-> TRUE]

Status(user_id) ==
    /\ response' =
          IF ~DbAvailable
          THEN HTTPException("status", user_id, 500, "Database not available")
          ELSE IF ~Found(twofasecret, user_id)
          THEN Return("status", user_id, NotConfigured(user_id))
          ELSE Return("status", user_id,
                      SetFields(ProjectOutSecret(FindOne(twofasecret, user_id)), StatusSet))
    /\ UNCHANGED <<db, twofasecret, twofasecret_audit, now, setups, verifies>>

Disable(user_id) ==
    IF ~DbAvailable
    THEN /\ response' = HTTPException("disable", user_id, 500, "Database not available")
         /\ UNCHANGED <<db, twofasecret, twofasecret_audit, now, setups, verifies>>
    ELSE /\ twofasecret' = UpdateOne(twofasecret, user_id, DisableSet, FALSE)
         /\ response' =
               IF ~Found(twofasecret, user_id)
               THEN HTTPException("disable", user_id, 404, "2FA not set up for this user")
               ELSE Return("disable", user_id, [success |-> TRUE, enabled |-> FALSE])
         /\ UNCHANGED <<db, twofasecret_audit, now, setups, verifies>>

(***************************************************************************)
(* The clock, and the specification.                                       *)
(***************************************************************************)
Tick ==
    /\ now + TickSeconds <= EndTime
    /\ now' = now + TickSeconds
    /\ response' = NoResponse
    /\ UNCHANGED <<db, twofasecret, twofasecret_audit, setups, verifies>>

\* a document as setup_2fa's upsert writes it
Credential(req, secret, enabled) ==
    [user_id |-> req.user_id, secret |-> secret, issuer |-> req.issuer,
     label |-> LabelOf(req), enabled |-> enabled]

\* the collection outlives the service: at start it is empty, or holds a
\* credential that an earlier run provisioned and perhaps activated
InitialCollections ==
    { <<>> } \cup
    { <<Credential([user_id |-> "alice", issuer |-> DefaultIssuer, label |-> None],
                   SecretB, enabled)>> : enabled \in BOOLEAN }

Init ==
    /\ db \in {None, "db"}
    /\ twofasecret \in InitialCollections
    /\ served = 0
    /\ twofasecret_audit = EmptyBag
    /\ now = StartTime
    /\ setups = EmptyBag
    /\ verifies = EmptyBag
    /\ response = NoResponse

Setup == \E req \in SetupRequests : SetupRead(req)

SetupWrite == \E s \in DOMAIN setups : SetupUpsert(s)

Verify == \E user_id \in Users : \E code \in CodesAt(now) :
              VerifyCheck([user_id |-> user_id, code |-> code])

VerifyWrite == \E v \in DOMAIN verifies : VerifyUpdate(v)

StatusRequest == \E user_id \in Users : Status(user_id)

DisableRequest == \E user_id \in Users : Disable(user_id)

\* a request arrives
Receive == served < MaxRequests /\ served' = served + 1

Next ==
    \/ Receive /\ Setup
    \/ SetupWrite /\ UNCHANGED served
    \/ Receive /\ Verify
    \/ VerifyWrite /\ UNCHANGED served
    \/ Receive /\ StatusRequest
    \/ Receive /\ DisableRequest
    \/ Tick /\ UNCHANGED served

Spec == Init /\ [][Next]_vars

(***************************************************************************)
(* What the claims speak of.                                               *)
(***************************************************************************)
\* the stored credential of a user has enabled = true
StoredEnabled(coll, user_id) == Found(coll, user_id) /\ FindOne(coll, user_id).enabled

\* the step answers a request `op` of user_id with status 200
Answers(op, user_id) ==
    /\ response'.op = op
    /\ response'.user_id = user_id
    /\ response'.status = 200

\* CounterForTime(timestamp, stepSeconds = 30)
CounterForTime(timestamp) == timestamp \div 30

\* the codes of the counters CounterForTime(t) - 1 .. CounterForTime(t) + 1
WindowCodes(secret, t) ==
    {GenerateOtp(secret, c) : c \in (CounterForTime(t) - 1)..(CounterForTime(t) + 1)}

\* the step lets the code of req pass: the request goes on to its write
Accepts(req) == verifies' = BagAdd(verifies, [req |-> req])

\* the step answers req that its code failed, and the request ends
Rejects(req) ==
    /\ verifies' = verifies
    /\ Answers("verify", req.user_id)
    /\ response'.body.success = FALSE

(***************************************************************************)
(* C1: the stored enabled flag of a user goes from false or absent to true *)
(* only in the step that answers a verify request of that user with        *)
(* success; no other step writes enabled = true over enabled = false.      *)
(* The code does not keep this: setup_2fa writes back the enabled value it *)
(* read, over whatever a disable has written since.                        *)
(***************************************************************************)
C1_OnlyVerifyEnables ==
    [][\A u \in Users :
          (~StoredEnabled(twofasecret, u) /\ StoredEnabled(twofasecret', u))
              => (Answers("verify", u) /\ response'.body.success = TRUE)]_vars

C3_SetupKeepsExisting ==
    [][\A s \in DOMAIN setups :
          (s.existing /\ SetupUpsert(s))
              => LET u == s.req.user_id
                 IN  /\ response'.body.secret = FindOne(twofasecret, u).secret
                     /\ response'.body.enabled = FindOne(twofasecret, u).enabled
                     /\ FindOne(twofasecret', u).secret = FindOne(twofasecret, u).secret
                     /\ FindOne(twofasecret', u).enabled = FindOne(twofasecret, u).enabled]_vars

(***************************************************************************)
(* C4: the write of a verify request whose code passed answers             *)
(* {success: true, verified: true, enabled: true} and leaves the stored    *)
(* enabled flag of the user true, the stored secret being what it was,     *)
(* whether the flag was false because the credential was never verified or *)
(* because it was disabled; and a request past the check always finds its  *)
(* document.                                                               *)
(***************************************************************************)
C4_VerifyActivates ==
    [][\A v \in DOMAIN verifies :
          LET u == v.req.user_id
          IN  /\ Found(twofasecret, u)
              /\ VerifyUpdate(v)
                    => /\ response' = [op |-> "verify", user_id |-> u, status |-> 200,
                                       body |-> [success |-> TRUE, verified |-> TRUE,
                                                 enabled |-> TRUE]]
                       /\ FindOne(twofasecret', u) =
                              [FindOne(twofasecret, u) EXCEPT !.enabled = TRUE]
                       /\ Len(twofasecret') = Len(twofasecret)]_vars

\* a credential that no setup of this run made or touched has been verified
\* with success, and is enabled
C4_Witness ==
    /\ response.op = "verify" /\ response.status = 200 /\ response.body.success
    /\ StoredEnabled(twofasecret, response.user_id)
    /\ setups = EmptyBag /\ twofasecret_audit = EmptyBag /\ Len(twofasecret) = 1

(***************************************************************************)
(* C5: a verify request whose code is not the code of a counter of the     *)
(* window answers success = false, verified = false and the stored enabled *)
(* flag, and ends there: the collection is left as it is and no write is   *)
(* left to do.                                                             *)
(***************************************************************************)
C5_FailedVerifyWritesNothing ==
    [][\A u \in Users :
          (db # None /\ Found(twofasecret, u))
              => LET doc == FindOne(twofasecret, u)
                     window == WindowCodes(doc.secret, now)
                 IN  \A code \in CodesAt(now) \ window :
                         \/ /\ response' = [op |-> "verify", user_id |-> u, status |-> 200,
                                            body |-> [success |-> FALSE, verified |-> FALSE,
                                                      enabled |-> doc.enabled]]
                            /\ twofasecret' = twofasecret
                            /\ verifies' = verifies
                         \/ ~VerifyCheck([user_id |-> u, code |-> code])]_vars

\* a wrong code for an enabled credential has been answered
C5_Witness ==
    /\ response.op = "verify" /\ response.status = 200
    /\ ~response.body.success /\ ~response.body.verified
    /\ response.body.enabled
    /\ StoredEnabled(twofasecret, response.user_id)

(***************************************************************************)
(* C6: only the answers of setup carry the secret or what is made of it    *)
(* (the otpauth URL, the QR image); the answer of status carries, of the   *)
(* stored document, the fields user_id, issuer, label and enabled as they  *)
(* are stored, and the flag configured.                                    *)
(***************************************************************************)
C6_StatusHidesSecret ==
    /\ response.op # "setup"
          => (DOMAIN response.body)
                 \cap {"secret", "otpauth_url", "qr_data_url", "secret_tail"} = {}
    /\ (response.op = "status" /\ response.status = 200)
          => /\ DOMAIN response.body
                   \subseteq {"user_id", "issuer", "label", "enabled", "configured"}
             /\ Found(twofasecret, response.user_id)
                   => \A f \in (DOMAIN response.body) \ {"configured"} :
                          response.body[f] = FindOne(twofasecret, response.user_id)[f]

\* status has answered for a user whose secret is stored
C6_Witness ==
    /\ response.op = "status" /\ response.status = 200
    /\ response.body.configured
    /\ FindOne(twofasecret, response.user_id).secret \in RandomBase32

(***************************************************************************)
(* C7: the stored enabled flag of a user goes from true to false only in   *)
(* the step that answers a disable request of that user, and a document is *)
(* created with enabled = false.  The code does not keep the first part:   *)
(* setup_2fa writes back the enabled = false it read, over the true that a *)
(* verify has written since.                                               *)
(***************************************************************************)
C7_OnlyDisableDisables ==
    [][\A u \in Users :
          /\ (StoredEnabled(twofasecret, u) /\ ~StoredEnabled(twofasecret', u))
                => Answers("disable", u)
          /\ (~Found(twofasecret, u) /\ Found(twofasecret', u))
                => ~StoredEnabled(twofasecret', u)]_vars

(***************************************************************************)
(* C8: a disable request of a user who has a credential, enabled or not,   *)
(* answers {success: true, enabled: false} and sets the stored enabled     *)
(* flag to false; the other fields of the document, and the documents of   *)
(* the other users, are left as they are.                                  *)
(***************************************************************************)
C8_DisableKeepsSecret ==
    [][\A u \in Users :
          (db # None /\ Found(twofasecret, u) /\ Disable(u))
              => /\ response' = [op |-> "disable", user_id |-> u, status |-> 200,
                                 body |-> [success |-> TRUE, enabled |-> FALSE]]
                 /\ Len(twofasecret') = Len(twofasecret)
                 /\ \A i \in 1..Len(twofasecret) :
                        twofasecret'[i] =
                            IF twofasecret[i].user_id = u
                            THEN [twofasecret[i] EXCEPT !.enabled = FALSE]
                            ELSE twofasecret[i]]_vars

\* a credential has been disabled and still holds its secret
C8_Witness ==
    /\ response.op = "disable" /\ response.status = 200
    /\ Found(twofasecret, response.user_id)
    /\ ~StoredEnabled(twofasecret, response.user_id)
    /\ FindOne(twofasecret, response.user_id).secret \in RandomBase32

(***************************************************************************)
(* C9: for a user without a credential, verify and disable answer 404 and  *)
(* change nothing, and status answers configured = false, enabled = false; *)
(* for a user with a credential neither verify, whatever the code, nor     *)
(* disable answers 404, so a failed code and a missing credential differ.  *)
(***************************************************************************)
C9_NotConfigured ==
    [][\A u \in Users :
          /\ (db # None /\ ~Found(twofasecret, u))
                => /\ \/ /\ response'.op = "verify" /\ response'.status = 404
                         /\ UNCHANGED <<twofasecret, verifies>>
                      \/ \A code \in CodesAt(now) :
                             ~VerifyCheck([user_id |-> u, code |-> code])
                   /\ \/ /\ response'.op = "disable" /\ response'.status = 404
                         /\ UNCHANGED twofasecret
                      \/ ~Disable(u)
                   /\ \/ response' = [op |-> "status", user_id |-> u, status |-> 200,
                                      body |-> [user_id |-> u, enabled |-> FALSE,
                                                configured |-> FALSE]]
                      \/ ~Status(u)
          /\ (db # None /\ Found(twofasecret, u))
                => /\ \/ response'.status # 404
                      \/ \A code \in CodesAt(now) :
                             ~VerifyCheck([user_id |-> u, code |-> code])
                   /\ response'.status # 404 \/ ~Disable(u)]_vars

\* disable has answered 404 for a user who has no credential, while another
\* user has one
C9_Witness ==
    /\ response.op = "disable" /\ response.status = 404
    /\ ~Found(twofasecret, response.user_id)
    /\ twofasecret # <<>>

(***************************************************************************)
(* C10: while db is None, setup, verify, status and disable each answer    *)
(* 500 with a detail only (no configured, success or enabled field), which *)
(* is neither the 404 of a user without credential nor a 200, and the      *)
(* collections are left as they are.                                       *)
(***************************************************************************)
C10_StoreUnavailable ==
    [][db = None
          => /\ UNCHANGED <<twofasecret, twofasecret_audit, setups, verifies>>
             /\ \A u \in Users :
                   /\ \A req \in SetupRequests :
                          (req.user_id = u /\ SetupRead(req))
                              => response' = [op |-> "setup", user_id |-> u, status |-> 500,
                                              body |-> [detail |-> "Database not available"]]
                   /\ \A code \in CodesAt(now) :
                          VerifyCheck([user_id |-> u, code |-> code])
                              => response' = [op |-> "verify", user_id |-> u, status |-> 500,
                                              body |-> [detail |-> "Database not available"]]
                   /\ Status(u)
                          => response' = [op |-> "status", user_id |-> u, status |-> 500,
                                          body |-> [detail |-> "Database not available"]]
                   /\ Disable(u)
                          => response' = [op |-> "disable", user_id |-> u, status |-> 500,
                                          body |-> [detail |-> "Database not available"]]]_vars

\* status has answered 500 for a user whose credential is in the collection
C10_Witness ==
    /\ db = None
    /\ response.op = "status" /\ response.status = 500
    /\ Found(twofasecret, response.user_id)

C12_SetupWriteKeepsEnabled ==
    [][\A s \in DOMAIN setups :
          (Found(twofasecret, s.req.user_id) /\ SetupUpsert(s))
              => StoredEnabled(twofasecret', s.req.user_id)
                     = StoredEnabled(twofasecret, s.req.user_id)]_vars

(***************************************************************************)
(* C13: the stored secret of a user, once written, is never changed by a   *)
(* step, and the answer of a setup request carries the secret that is      *)
(* stored.  The code does not keep this for two setup requests of a user   *)
(* without a document: both find none, each draws a secret of its own, and *)
(* the second upsert replaces the secret that the first one stored and     *)
(* sent to its client.                                                     *)
(***************************************************************************)
C13_SecretNeverChanges ==
    [][\A u \in Users :
          /\ Found(twofasecret, u)
                => /\ Found(twofasecret', u)
                   /\ FindOne(twofasecret', u).secret = FindOne(twofasecret, u).secret
          /\ Answers("setup", u)
                => response'.body.secret = FindOne(twofasecret', u).secret]_vars

(***************************************************************************)
(* C14, as amended: a status request of a user who has a credential is     *)
(* answered with exactly the fields user_id, issuer, label, enabled and    *)
(* configured: configured is true and the others are as stored; and a      *)
(* status request, whatever its answer, leaves the collections as they     *)
(* are.                                                                    *)
(***************************************************************************)
C14_StatusAnswer ==
    [][\A u \in Users :
          \/ /\ UNCHANGED <<twofasecret, twofasecret_audit, setups, verifies>>
             /\ (db # None /\ Found(twofasecret, u))
                   => LET doc == FindOne(twofasecret, u)
                      IN  response' =
                              [op |-> "status", user_id |-> u, status |-> 200,
                               body |-> [user_id |-> doc.user_id, issuer |-> doc.issuer,
                                         label |-> doc.label, enabled |-> doc.enabled,
                                         configured |-> TRUE]]
          \/ ~Status(u)]_vars

\* C14 as stated: the answer has exactly the fields user_id, enabled and
\* configured
C14_AsStated ==
    [][\A u \in Users :
          \/ /\ UNCHANGED <<twofasecret, twofasecret_audit, setups, verifies>>
             /\ (db # None /\ Found(twofasecret, u))
                   => /\ DOMAIN response'.body = {"user_id", "enabled", "configured"}
                      /\ response'.body.configured = TRUE
                      /\ response'.body.enabled = FindOne(twofasecret, u).enabled
          \/ ~Status(u)]_vars

\* status has answered for an enabled credential, with its issuer and label
C14_Witness ==
    /\ response.op = "status" /\ response.status = 200
    /\ StoredEnabled(twofasecret, response.user_id)
    /\ response.body.enabled /\ response.body.configured
    /\ {"issuer", "label"} \subseteq DOMAIN response.body

(***************************************************************************)
(* C15: a document of a user comes into the collection only in the step    *)
(* that answers a setup request of that user; verify, disable and status   *)
(* insert none; no step removes a document; and the collection holds at    *)
(* most one document of a user.                                            *)
(***************************************************************************)
C15_RecordsOnlyFromSetup ==
    [][/\ Len(twofasecret') >= Len(twofasecret)
       /\ \A u \in Users :
             /\ Found(twofasecret, u) => Found(twofasecret', u)
             /\ (~Found(twofasecret, u) /\ Found(twofasecret', u)) => Answers("setup", u)
             /\ Cardinality({i \in 1..Len(twofasecret) : twofasecret[i].user_id = u}) <= 1
             /\ Cardinality({i \in 1..Len(twofasecret') : twofasecret'[i].user_id = u}) <= 1
       /\ response'.op \in {"verify", "disable", "status"}
             => Len(twofasecret') = Len(twofasecret)]_vars

\* a setup request has added the document of a second user
C15_Witness ==
    /\ response.op = "setup" /\ response.status = 200
    /\ Len(twofasecret) = 2
    /\ \A u \in Users : Found(twofasecret, u)

(***************************************************************************)
(* C16: a setup request issued again after it has been answered, with no   *)
(* other request of the user in between or under way, takes up the secret  *)
(* and the enabled flag of the first answer and writes no audit document;  *)
(* and its write, finding in the collection the document the first request *)
(* wrote, leaves the collection as it is and answers with the same secret, *)
(* otpauth_url, issuer, label and enabled.                                 *)
(***************************************************************************)
C16_SetupIdempotent ==
    [][/\ \A req \in SetupRequests :
             (/\ response.op = "setup" /\ response.status = 200
              /\ response.user_id = req.user_id
              /\ response.body.issuer = req.issuer
              /\ response.body.label = LabelOf(req)
              /\ \A s \in DOMAIN setups : s.req.user_id # req.user_id
              /\ \A v \in DOMAIN verifies : v.req.user_id # req.user_id
              /\ SetupRead(req))
                 => /\ setups' = BagAdd(setups, [req |-> req, label |-> response.body.label,
                                                 existing |-> TRUE,
                                                 secret |-> response.body.secret,
                                                 enabled |-> response.body.enabled])
                    /\ UNCHANGED <<twofasecret, twofasecret_audit>>
       /\ \A s \in DOMAIN setups :
             (/\ s.existing
              /\ Found(twofasecret, s.req.user_id)
              /\ FindOne(twofasecret, s.req.user_id)
                     = [user_id |-> s.req.user_id, secret |-> s.secret,
                        issuer |-> s.req.issuer, label |-> s.label, enabled |-> s.enabled]
              /\ SetupUpsert(s))
                 => /\ twofasecret' = twofasecret
                    /\ Answers("setup", s.req.user_id)
                    /\ response'.body.secret = s.secret
                    /\ response'.body.issuer = s.req.issuer
                    /\ response'.body.label = s.label
                    /\ response'.body.enabled = s.enabled
                    /\ response'.body.otpauth_url
                           = ProvisioningUri(s.secret, s.label, s.req.issuer)]_vars

\* a first setup request has drawn a secret, written its audit document and
\* its document, and the same request, issued again, has read that document
\* and is about to write
C16_Witness ==
    \E s \in DOMAIN setups :
        /\ s.existing
        /\ AuditDoc(s.req, s.label, s.secret) \in DOMAIN twofasecret_audit
        /\ Found(twofasecret, s.req.user_id)
        /\ FindOne(twofasecret, s.req.user_id)
               = [user_id |-> s.req.user_id, secret |-> s.secret,
                  issuer |-> s.req.issuer, label |-> s.label, enabled |-> FALSE]

(***************************************************************************)
(* C17: a setup request of a user without a stored secret goes on whether  *)
(* or not its audit document gets written: the step that reads gives no    *)
(* answer, adds to the audit collection that document or nothing, and      *)
(* keeps a new secret with enabled = false, which the request's write      *)
(* stores and answers with status 200; and a setup request that finds a    *)
(* stored secret leaves the audit collection as it is.                     *)
(***************************************************************************)
C17_AuditFailureIgnored ==
    [][/\ \A req \in SetupRequests :
             \/ LET u == req.user_id
                    stored == Found(twofasecret, u) /\ FindOne(twofasecret, u).secret # <<>>
                IN  /\ stored => UNCHANGED twofasecret_audit
                    /\ (db # None /\ ~stored)
                          => /\ response' = NoResponse
                             /\ \E secret \in RandomBase32 :
                                   LET s == [req |-> req, label |-> LabelOf(req),
                                             existing |-> FALSE, secret |-> secret,
                                             enabled |-> FALSE]
                                       doc == AuditDoc(req, LabelOf(req), secret)
                                   IN  /\ setups' = BagAdd(setups, s)
                                       /\ \/ twofasecret_audit' = twofasecret_audit
                                          \/ twofasecret_audit' = BagAdd(twofasecret_audit, doc)
             \/ ~SetupRead(req)
       /\ \A s \in DOMAIN setups :
             \/ s.existing
             \/ /\ Answers("setup", s.req.user_id)
                /\ response'.body.secret = s.secret
                /\ response'.body.enabled = FALSE
                /\ Found(twofasecret', s.req.user_id)
                /\ FindOne(twofasecret', s.req.user_id).secret = s.secret
                /\ FindOne(twofasecret', s.req.user_id).enabled = FALSE
                /\ UNCHANGED twofasecret_audit
             \/ ~SetupUpsert(s)]_vars

\* a setup request whose audit document failed has stored its new secret and
\* has been answered
C17_Witness ==
    /\ response.op = "setup" /\ response.status = 200
    /\ response.body.secret = SecretA /\ ~response.body.enabled
    /\ FindOne(twofasecret, response.user_id).secret = SecretA
    /\ twofasecret_audit = EmptyBag
====
